---- MODULE Spec2Model ----
(***************************************************************************)
(* cargo-binutils: one invocation of a `cargo-<tool>` proxy.               *)
(*                                                                         *)
(* The model follows src/src/lib.rs `run` statement by statement, split    *)
(* at the points where it talks to the outside world (the build, the       *)
(* construction of the execution context, the artifact lookup, the tool    *)
(* process, standard output), and finishes with `main` of the binary,      *)
(* which turns the value returned by the library into the process's exit  *)
(* code.  The --verbose flag, which only echoes the two commands on the    *)
(* error stream, is left out.  What the outside world answers (exit        *)
(* statuses, the contents of the sysroot, `.cargo/config`, the artifact    *)
(* path, the tool's output) is chosen nondeterministically from small      *)
(* sets.                                                                   *)
(***************************************************************************)
EXTENDS Integers, Sequences, FiniteSets, TLC

(* ---------------------------------------------------------------- bounds *)
\* longest list of free-form trailing arguments
MaxArgs == 1
\* most directory entries the walk of the sysroot can yield
MaxEntries == 1
\* largest exit code a child process reports
MaxCode == 2

(* ------------------------------------------------------ values and inputs *)
\* Option::None, for the optional strings of the program
None == "None"
\* an absent path (no working directory set, no artifact resolved)
NoPath == << >>
\* ExitStatus::code() == None: the child was terminated by a signal
NoCode == -1
\* the default of `status.code().unwrap_or(1)`
FallbackCode == 1

Tools == {"Nm", "Objcopy", "Objdump", "Profdata", "Size", "Strip"}

ArgVals == {"a", "b"}
DashVals == {None, "-d"}
BinNames == {None, "app"}
ExampleNames == {None, "demo"}
TargetFlags == {None, "thumbv7m-none-eabi"}
BuildTargets == {None, "riscv32imac-unknown-none-elf"}
Hosts == {"x86_64-unknown-linux-gnu"}
\* a path is the sequence of its components
ArtifactPaths == { <<"target", "debug", "app">>,
                   <<"target", "thumbv7m-none-eabi", "release", "libfoo.rlib">> }
\* what the wrapped tool can print on its standard output
Outputs == { <<"raw0">>, <<"raw1">> }
\* the statuses a child process can end with
Statuses == (0..MaxCode) \cup {NoCode}
\* the file names the walk of the sysroot can come across
Entries == {"llvm-size", "other"}

SeqsUpTo(S, n) == UNION { [1..k -> S] : k \in 0..n }

(* ------------------------------------------------------------ pure parts *)
name(t) ==
    CASE t = "Nm" -> "nm"
      [] t = "Objcopy" -> "objcopy"
      [] t = "Objdump" -> "objdump"
      [] t = "Profdata" -> "profdata"
      [] t = "Size" -> "size"
      [] t = "Strip" -> "strip"

needs_build(t) ==
    CASE t \in {"Nm", "Objcopy", "Objdump", "Size", "Strip"} -> TRUE
      [] t = "Profdata" -> FALSE

\* a check that fires only when all three flags are set
at_least_all_three(a, b, c) == a /\ b /\ c

at_least_two_are_true(a, b, c) == IF a THEN b \/ c ELSE b /\ c

\* ExitStatus::success()
success(status) == status = 0

\* status.code().unwrap_or(1)
code_or_default(status) == IF status = NoCode THEN FallbackCode ELSE status

\* Path::parent() and Path::file_name() of a path with a parent
parent(p) == SubSeq(p, 1, Len(p) - 1)
file_name(p) == <<p[Len(p)]>>

\* the result of `run`, a Result<i32>
Pending == [tag |-> "Pending", code |-> NoCode, msg |-> None]
Ok(c) == [tag |-> "Ok", code |-> c, msg |-> None]
Err(m) == [tag |-> "Err", code |-> NoCode, msg |-> m]

NoArtifact == [kind |-> "None", name |-> None]
NoContext == [bindir |-> 0, build_target |-> None, target |-> None, built |-> FALSE]
NoCommand == [program |-> None, bindir |-> 0, args |-> << >>, cwd |-> NoPath]
NoOutput == [status |-> NoCode, stdout |-> << >>, exited |-> FALSE]
NoBuild == [ran |-> FALSE, status |-> NoCode]

VARIABLES
    tool,        \* the Tool `run` is called with
    matches,     \* clap's ArgMatches: the flags of the command line
    sysroot,     \* the entries the walk of the sysroot yields, in order
    pc,          \* the position of the run
    artifact,    \* `artifact`: the Artifact requested
    release,     \* `release`
    cargo,       \* the arguments of the `cargo` command
    build,       \* whether `cargo build` ran, and the status it ended with
    tool_args,   \* `tool_args`
    ctxt,        \* `ctxt`: the Context
    path,        \* the path `cargo::artifact` returned
    lltool,      \* `lltool`: the Command of the wrapped tool
    output,      \* `output`: the Output of the wrapped tool
    stdout,      \* what was written to standard output, in order
    stderr,      \* what was written to the error stream, in order
    result,      \* the value `run` returned
    exit_code,   \* the exit code of the process (NoCode while it runs)
    log          \* the steps taken so far, in order

vars == <<tool, matches, sysroot, pc, artifact, release, cargo, build, tool_args, ctxt,
          path, lltool, output, stdout, stderr, result, exit_code, log>>

(* ------------------------------------------------------------------ Init *)
\* The command lines clap accepts: --bin, --example, --lib and --release
\* exist only for the tools that need a build.
MatchesOf(t) ==
    { m \in [target : TargetFlags, dash : DashVals,
             args : SeqsUpTo(ArgVals, MaxArgs), bin : BinNames,
             example : ExampleNames, lib : BOOLEAN, release : BOOLEAN] :
        needs_build(t) \/ (m.bin = None /\ m.example = None /\ ~m.lib /\ ~m.release) }

Init ==
    /\ tool \in Tools
    /\ matches \in MatchesOf(tool)
    /\ sysroot \in SeqsUpTo(Entries, MaxEntries)
    /\ pc = "parse"
    /\ artifact = NoArtifact
    /\ release = FALSE
    /\ cargo = << >>
    /\ build = NoBuild
    /\ tool_args = << >>
    /\ ctxt = NoContext
    /\ path = NoPath
    /\ lltool = NoCommand
    /\ output = NoOutput
    /\ stdout = << >>
    /\ stderr = << >>
    /\ result = Pending
    /\ exit_code = NoCode
    /\ log = << >>

(* ------------------------------------------------- lib.rs 228-294: flags *)
\* `artifact` of lines 251-265, for flags that passed the check of line 245
ArtifactOf(m) ==
    IF m.bin # None THEN [kind |-> "Bin", name |-> m.bin]
    ELSE IF m.example # None THEN [kind |-> "Example", name |-> m.example]
    ELSE IF m.lib THEN [kind |-> "Lib", name |-> None]
    ELSE NoArtifact

\* the `cargo build` command of lines 270-294
CargoArgs(target_flag, a, rel) ==
    <<"build">>
    \o (IF target_flag # None THEN <<"--target", target_flag>> ELSE << >>)
    \o (CASE a.kind = "Bin" -> <<"--bin", a.name>>
          [] a.kind = "Example" -> <<"--example", a.name>>
          [] a.kind = "Lib" -> <<"--lib">>
          [] a.kind = "None" -> << >>)
    \o (IF rel THEN <<"--release">> ELSE << >>)

\* the run ends with the value r
Return(r) ==
    /\ result' = r
    /\ pc' = "main"

\* lines 231-249: two or more of --bin, --example, --lib
ParseConflict ==
    /\ pc = "parse"
    /\ needs_build(tool)
    /\ at_least_two_are_true(matches.bin # None, matches.example # None, matches.lib)
    /\ Return(Err("Only one of --bin, --example or --lib must be specified"))
    /\ log' = Append(log, "parse_err")
    /\ UNCHANGED <<tool, matches, sysroot, artifact, release, cargo, build, tool_args, ctxt,
                   path, lltool, output, stdout, stderr, exit_code>>

\* lines 231-294: the artifact, the profile and the build command
ParseOk ==
    /\ pc = "parse"
    /\ ~(needs_build(tool)
         /\ at_least_two_are_true(matches.bin # None, matches.example # None, matches.lib))
    /\ LET a == IF needs_build(tool) THEN ArtifactOf(matches) ELSE NoArtifact
           rel == IF needs_build(tool) THEN matches.release ELSE FALSE
       IN /\ artifact' = a
          /\ release' = rel
          /\ cargo' = CargoArgs(matches.target, a, rel)
    /\ pc' = "build"
    /\ log' = Append(log, "parse")
    /\ UNCHANGED <<tool, matches, sysroot, build, tool_args, ctxt, path, lltool, output,
                   stdout, stderr, result, exit_code>>

(* ---------------------------------------------- lib.rs 296-306: the build *)
\* a build that runs for the named artifacts only, not for --lib
build_wanted_named_only(a) == a.kind \in {"Bin", "Example"}

\* line 296: the build runs when an artifact was requested
build_wanted(a) == a.kind # "None"

\* line 304: the code `run` returns for a build that did not succeed
\* the default code returned whatever the status was
build_exit_default(status) == FallbackCode

build_exit(status) == code_or_default(status)

\* line 296: nothing to build
BuildSkip ==
    /\ pc = "build"
    /\ ~build_wanted(artifact)
    /\ pc' = "ctxt"
    /\ UNCHANGED <<tool, matches, sysroot, artifact, release, cargo, build, tool_args, ctxt,
                   path, lltool, output, stdout, stderr, result, exit_code, log>>

\* line 301: `cargo build` could not be started
BuildSpawnFail ==
    /\ pc = "build"
    /\ build_wanted(artifact)
    /\ Return(Err("cargo: spawn failed"))
    /\ log' = Append(log, "build_err")
    /\ UNCHANGED <<tool, matches, sysroot, artifact, release, cargo, build, tool_args, ctxt,
                   path, lltool, output, stdout, stderr, exit_code>>

\* lines 297-305: `cargo build` ran and ended with `status`
BuildRun ==
    /\ pc = "build"
    /\ build_wanted(artifact)
    /\ \E status \in Statuses :
         /\ build' = [ran |-> TRUE, status |-> status]
         /\ IF ~success(status)
            THEN /\ Return(Ok(build_exit(status)))
                 /\ log' = log \o <<"build", "build_failed">>
            ELSE /\ pc' = "ctxt"
                 /\ log' = log \o <<"build", "build_ok">>
                 /\ UNCHANGED result
    /\ UNCHANGED <<tool, matches, sysroot, artifact, release, cargo, tool_args, ctxt,
                   path, lltool, output, stdout, stderr, exit_code>>

(* ------------------------------- lib.rs 308-319, 86-157: the Context *)
\* lines 308-315: `--` first, then the free-form arguments; every argument
\* is a one-component path
ToolArgs(m) ==
    (IF m.dash # None THEN << <<m.dash>> >> ELSE << >>)
    \o [i \in 1..Len(m.args) |-> <<m.args[i]>>]

\* the project's build target taking precedence over the flag
ResolveTarget_project_first(target_flag, build_target, host) ==
    IF build_target # None THEN build_target
    ELSE IF target_flag # None THEN target_flag
    ELSE host

\* lines 105-108: the compilation target
ResolveTarget(target_flag, build_target, host) ==
    IF target_flag # None THEN target_flag
    ELSE IF build_target # None THEN build_target
    ELSE host

\* a walk that takes the first entry for the marker, whatever its name
Walk_any_entry(entries, i) ==
    IF i > Len(entries) THEN 0 ELSE i

\* lines 111-124: the walk of the sysroot from entry i on: the index of the
\* first entry named llvm-size, 0 when the walk ends without one
RECURSIVE Walk(_, _)
Walk(entries, i) ==
    IF i > Len(entries) THEN 0
    ELSE IF entries[i] = "llvm-size" THEN i
    ELSE Walk(entries, i + 1)

\* llvm::arch_name(cfg, target), as a value that depends on the target
arch_name(target) == <<"arch-of", target>>

\* lines 149-157: Context::tool
Context_tool(c, t, target) ==
    [program |-> name(t), bindir |-> c.bindir,
     args |-> IF t = "Objdump" THEN << <<"-arch-name">>, arch_name(target) >> ELSE << >>,
     cwd |-> NoPath]

\* what can fail in Context::new before the sysroot is walked (lines 87-109)
EarlyFailures ==
    {"current_dir", "Config::get", "version_meta", "rustc --print sysroot",
     "from_utf8", "Cfg::parse"}

\* lines 87-109: Context::new fails before it looks at the sysroot
ContextEarlyFail ==
    /\ pc = "ctxt"
    /\ \E f \in EarlyFailures : Return(Err(f))
    /\ tool_args' = ToolArgs(matches)
    /\ log' = Append(log, "ctxt_err")
    /\ UNCHANGED <<tool, matches, sysroot, artifact, release, cargo, build, ctxt,
                   path, lltool, output, stdout, stderr, exit_code>>

\* line 112: the walk of the sysroot fails on an entry it cannot read, the
\* root itself or one that comes before the first llvm-size
ContextWalkError ==
    /\ pc = "ctxt"
    /\ Return(Err("walkdir"))
    /\ tool_args' = ToolArgs(matches)
    /\ log' = Append(log, "ctxt_err")
    /\ UNCHANGED <<tool, matches, sysroot, artifact, release, cargo, build, ctxt,
                   path, lltool, output, stdout, stderr, exit_code>>

\* lines 111-129: the walk of the sysroot ends without an entry named llvm-size
ContextWalkFail ==
    /\ pc = "ctxt"
    /\ Walk(sysroot, 1) = 0
    /\ Return(Err("llvm-tools-preview component is missing or empty"))
    /\ tool_args' = ToolArgs(matches)
    /\ log' = Append(log, "ctxt_err")
    /\ UNCHANGED <<tool, matches, sysroot, artifact, release, cargo, build, ctxt,
                   path, lltool, output, stdout, stderr, exit_code>>

\* lines 308-319: the trailing arguments, the Context and the tool's Command
ContextNew ==
    /\ pc = "ctxt"
    /\ Walk(sysroot, 1) > 0
    /\ tool_args' = ToolArgs(matches)
    /\ \E build_target \in BuildTargets, host \in Hosts :
         LET c == [bindir |-> Walk(sysroot, 1), build_target |-> build_target,
                   target |-> ResolveTarget(matches.target, build_target, host),
                   built |-> TRUE]
         IN /\ ctxt' = c
            /\ lltool' = Context_tool(c, tool, c.target)
    /\ pc' = "resolve"
    /\ log' = Append(log, "ctxt")
    /\ UNCHANGED <<tool, matches, sysroot, artifact, release, cargo, build,
                   path, output, stdout, stderr, result, exit_code>>

(* ------------------------------ lib.rs 321-338: the artifact and its place *)
\* the size tool left out of the tools that change directory
changes_cwd_without_size(t) == t \in {"Objdump", "Nm"}

\* line 329: the tools run in the artifact's directory, on its file name
changes_cwd(t) == t \in {"Objdump", "Nm", "Size"}

\* lines 324-337: the Command with the artifact p placed in it
PlaceArtifact(t, c, p) ==
    IF changes_cwd(t)
    THEN [c EXCEPT !.cwd = parent(p), !.args = Append(c.args, file_name(p))]
    ELSE [c EXCEPT !.args = Append(c.args, p)]

\* line 321: no artifact was requested
ResolveSkip ==
    /\ pc = "resolve"
    /\ artifact.kind = "None"
    /\ pc' = "invoke"
    /\ UNCHANGED <<tool, matches, sysroot, artifact, release, cargo, build, tool_args, ctxt,
                   path, lltool, output, stdout, stderr, result, exit_code, log>>

\* a lookup whose failure is dropped, so that the run goes on
ResolveFail_ignored ==
    /\ pc = "resolve"
    /\ artifact.kind # "None"
    /\ pc' = "invoke"
    /\ log' = Append(log, "resolve_err")
    /\ UNCHANGED <<tool, matches, sysroot, artifact, release, cargo, build, tool_args, ctxt,
                   path, lltool, output, stdout, stderr, result, exit_code>>

\* line 322: cargo::artifact finds no artifact
ResolveFail ==
    /\ pc = "resolve"
    /\ artifact.kind # "None"
    /\ Return(Err("cargo::artifact"))
    /\ log' = Append(log, "resolve_err")
    /\ UNCHANGED <<tool, matches, sysroot, artifact, release, cargo, build, tool_args, ctxt,
                   path, lltool, output, stdout, stderr, exit_code>>

\* lines 322-337: cargo::artifact returns a path, which goes into the Command
ResolveArtifact ==
    /\ pc = "resolve"
    /\ artifact.kind # "None"
    /\ \E p \in ArtifactPaths :
         /\ path' = p
         /\ lltool' = PlaceArtifact(tool, lltool, p)
    /\ pc' = "invoke"
    /\ log' = Append(log, "resolve")
    /\ UNCHANGED <<tool, matches, sysroot, artifact, release, cargo, build, tool_args, ctxt,
                   output, stdout, stderr, result, exit_code>>

(* ------------------------------------ lib.rs 340-349: the wrapped tool *)
\* the trailing arguments put in front of what the Command holds
WithToolArgs_in_front(c, targs) == [c EXCEPT !.args = targs \o c.args]

\* line 340: the trailing arguments go last
WithToolArgs(c, targs) == [c EXCEPT !.args = c.args \o targs]

\* line 349: the tool could not be started
InvokeSpawnFail ==
    /\ pc = "invoke"
    /\ lltool' = WithToolArgs(lltool, tool_args)
    /\ Return(Err("lltool: spawn failed"))
    /\ log' = Append(log, "invoke_err")
    /\ UNCHANGED <<tool, matches, sysroot, artifact, release, cargo, build, tool_args, ctxt,
                   path, output, stdout, stderr, exit_code>>

\* lines 340-349: the tool runs to its end; its standard output is captured
InvokeTool ==
    /\ pc = "invoke"
    /\ lltool' = WithToolArgs(lltool, tool_args)
    /\ \E status \in Statuses, raw \in Outputs :
         output' = [status |-> status, stdout |-> raw, exited |-> TRUE]
    /\ pc' = "post"
    /\ log' = Append(log, "invoke")
    /\ UNCHANGED <<tool, matches, sysroot, artifact, release, cargo, build, tool_args, ctxt,
                   path, stdout, stderr, result, exit_code>>

(* ------------------------- lib.rs 352-358: postprocessing and emission *)
\* the profile tool's output sent through a transform
passes_through_without_profdata(t) == t \in {"Objcopy", "Strip"}

\* lines 352-356: the tools whose output is written as it is
passes_through(t) == t \in {"Objcopy", "Profdata", "Strip"}

\* lines 352-356: the postprocessed output; postprocess::demangle and
\* postprocess::size are functions of the raw output that are left open
Postprocessed(t, raw) ==
    IF passes_through(t) THEN raw
    ELSE IF t = "Size" THEN <<"postprocess::size">> \o raw
    ELSE <<"postprocess::demangle">> \o raw

\* line 358: standard output cannot be written
EmitFail ==
    /\ pc = "post"
    /\ Return(Err("write_all"))
    /\ log' = log \o <<"postprocess", "emit_err">>
    /\ UNCHANGED <<tool, matches, sysroot, artifact, release, cargo, build, tool_args, ctxt,
                   path, lltool, output, stdout, stderr, exit_code>>

\* lines 352-358: the postprocessed output is written to standard output
PostprocessEmit ==
    /\ pc = "post"
    /\ LET pp_output == Postprocessed(tool, output.stdout)
       IN stdout' = Append(stdout, pp_output)
    /\ pc' = "status"
    /\ log' = log \o <<"postprocess", "emit">>
    /\ UNCHANGED <<tool, matches, sysroot, artifact, release, cargo, build, tool_args, ctxt,
                   path, lltool, output, stderr, result, exit_code>>

(* ------------------------------------------- lib.rs 360-364: the result *)
\* lines 360-364: the code of the run, from the tool's status
tool_exit(status) == IF success(status) THEN 0 ELSE code_or_default(status)

Finish ==
    /\ pc = "status"
    /\ Return(Ok(tool_exit(output.status)))
    /\ UNCHANGED <<tool, matches, sysroot, artifact, release, cargo, build, tool_args, ctxt,
                   path, lltool, output, stdout, stderr, exit_code, log>>

(* ------------------------------------ bin/rust-profdata.rs 5-10: main *)
\* line 7: the error is printed and main returns, so the process ends with
\* the status of a main that returned: 0
MainErr ==
    /\ pc = "main"
    /\ result.tag = "Err"
    /\ stderr' = Append(stderr, "error")
    /\ exit_code' = 0
    /\ pc' = "done"
    /\ UNCHANGED <<tool, matches, sysroot, artifact, release, cargo, build, tool_args, ctxt,
                   path, lltool, output, stdout, result, log>>

\* line 8: process::exit(ec)
MainOk ==
    /\ pc = "main"
    /\ result.tag = "Ok"
    /\ exit_code' = result.code
    /\ pc' = "done"
    /\ UNCHANGED <<tool, matches, sysroot, artifact, release, cargo, build, tool_args, ctxt,
                   path, lltool, output, stdout, stderr, result, log>>

Next ==
    \/ ParseConflict \/ ParseOk
    \/ BuildSkip \/ BuildSpawnFail \/ BuildRun
    \/ ContextEarlyFail \/ ContextWalkError \/ ContextWalkFail \/ ContextNew
    \/ ResolveSkip \/ ResolveFail \/ ResolveArtifact
    \/ InvokeSpawnFail \/ InvokeTool
    \/ EmitFail \/ PostprocessEmit
    \/ Finish
    \/ MainErr \/ MainOk

Spec == Init /\ [][Next]_vars

(* ------------------------------------------------------------ the claims *)
\* What the claims speak of, stated on the command line and the history of
\* the run rather than through the operators of the model.
Has(e) == \E i \in 1..Len(log) : log[i] = e
Precedes(a, b) == \E j \in 2..Len(log) : log[j] = b /\ \E i \in 1..(j - 1) : log[i] = a
Ended == pc \in {"main", "done"}

SelectorsSet(m) ==
    (IF m.bin # None THEN {"bin"} ELSE {})
    \cup (IF m.example # None THEN {"example"} ELSE {})
    \cup (IF m.lib THEN {"lib"} ELSE {})
TwoOrMore == Cardinality(SelectorsSet(matches)) >= 2
ExactlyOne == Cardinality(SelectorsSet(matches)) = 1
NoSelector == SelectorsSet(matches) = {}
BuildingTool == tool \in {"Nm", "Objcopy", "Objdump", "Size", "Strip"}
NoMarker == \A i \in 1..Len(sysroot) : sysroot[i] # "llvm-size"
InvalidRequest == Err("Only one of --bin, --example or --lib must be specified")
ComponentMissing == Err("llvm-tools-preview component is missing or empty")
\* the trailing arguments of the command line, `--` value first
Trailing ==
    (IF matches.dash # None THEN << <<matches.dash>> >> ELSE << >>)
    \o [i \in 1..Len(matches.args) |-> <<matches.args[i]>>]

\* C1: with two or more of --bin, --example and --lib set, the run of a tool
\* that needs a build fails with InvalidRequest, and no build command is
\* started, no context is constructed, no artifact is resolved and no tool is
\* invoked.
C1_ConflictingFlagsFailFirst ==
    (BuildingTool /\ TwoOrMore) =>
        /\ ~build.ran /\ ~Has("build") /\ ~Has("build_err")
        /\ ~ctxt.built /\ ~Has("ctxt")
        /\ path = NoPath /\ ~Has("resolve")
        /\ ~output.exited /\ ~Has("invoke") /\ ~Has("invoke_err")
        /\ stdout = << >>
        /\ (pc # "parse" => Ended /\ result = InvalidRequest)

C1_Witness ==
    /\ BuildingTool /\ TwoOrMore
    /\ pc = "done" /\ result = InvalidRequest

\* C2 as stated: without a marker executable in the sysroot, the run fails
\* before any build is attempted: in no such run is the build command
\* started.
C2_Original == NoMarker => ~build.ran /\ ~Has("build")

\* C2 as amended: without a marker executable in the sysroot no run
\* constructs the context, invokes the tool or writes to standard output, no
\* run returns 0 as its result, and a run that gets to walk the sysroot and
\* can read all of it fails with ComponentMissing; the walk comes after the
\* build, which has run and succeeded by then whenever an artifact was
\* requested.
C2_MissingComponentAfterBuild ==
    NoMarker =>
        /\ ~ctxt.built /\ ~Has("ctxt")
        /\ ~output.exited /\ ~Has("invoke") /\ ~Has("invoke_err")
        /\ stdout = << >>
        /\ (result.tag = "Ok" => build.ran /\ build.status # 0 /\ result.code # 0)
        /\ (Has("ctxt_err") /\ ExactlyOne => build.ran /\ build.status = 0)
        /\ (Has("ctxt_err") /\ result.msg \notin (EarlyFailures \cup {"walkdir"})
              => result = ComponentMissing)

C2_Witness ==
    /\ NoMarker /\ Len(sysroot) > 0
    /\ build.ran /\ build.status = 0
    /\ pc = "done" /\ result = ComponentMissing

C4_BuildFailurePropagated ==
    (build.ran /\ build.status # 0) =>
        /\ Ended
        /\ (build.status # NoCode => result = Ok(build.status))
        /\ (build.status = NoCode => result = Ok(FallbackCode))
        /\ ~ctxt.built /\ ~Has("ctxt") /\ ~Has("ctxt_err")
        /\ path = NoPath /\ ~Has("resolve") /\ ~Has("resolve_err")
        /\ lltool = NoCommand /\ ~output.exited /\ ~Has("invoke") /\ ~Has("invoke_err")
        /\ stdout = << >>

C4_Witness ==
    /\ build.ran /\ build.status = MaxCode
    /\ pc = "done" /\ result = Ok(MaxCode)

\* C5: the exit code is 0 exactly when the wrapped tool ran and exited
\* successfully; it is the tool's own exit code when the tool ran and failed;
\* and for a failure before any tool is invoked it is nonzero, with a message
\* on the error stream.
C5_ExitCodes ==
    pc = "done" =>
        /\ (exit_code = 0 <=> (output.exited /\ output.status = 0))
        /\ (output.exited /\ output.status \in 1..MaxCode /\ result.tag = "Ok"
              => exit_code = output.status)
        /\ (result.tag = "Err" /\ ~output.exited
              => exit_code # 0 /\ Len(stderr) > 0 /\ stderr[Len(stderr)] = "error")

\* C6 as stated: the steps come in order, each after its predecessor
\* succeeded; postprocessing and emission do not begin unless the tool's
\* process completed successfully (read here for the processes that end
\* with an exit code), and the tool is not invoked unless the artifact (when
\* one is requested) was resolved.
StepRank(e) ==
    CASE e = "parse" -> 1
      [] e \in {"build", "build_ok", "build_failed", "build_err"} -> 2
      [] e \in {"ctxt", "ctxt_err"} -> 3
      [] e \in {"resolve", "resolve_err"} -> 4
      [] e \in {"invoke", "invoke_err"} -> 5
      [] e \in {"postprocess"} -> 6
      [] e \in {"emit", "emit_err"} -> 7
      [] OTHER -> 0
InOrder == \A i \in 1..(Len(log) - 1) : StepRank(log[i]) <= StepRank(log[i + 1])

C6_Original ==
    /\ InOrder
    /\ (Has("resolve") /\ build.ran => build.status = 0)
    /\ (Has("invoke") /\ ~NoSelector /\ BuildingTool => path # NoPath)
    /\ (Has("postprocess") \/ stdout # << >> => output.exited)
    /\ (stdout # << >> /\ output.status # NoCode => output.status = 0)

\* C6 as amended: the steps come in the order build (when an artifact is
\* requested), construction of the context, artifact resolution (when an
\* artifact is requested), tool invocation, postprocessing and emission; the
\* build must exit with status zero and the resolution must succeed before
\* the next step begins; postprocessing and emission begin only once the
\* tool's process was started and has exited, whatever its exit status: the
\* output of a tool that exits with a nonzero status is postprocessed and
\* written too.
C6_StepsInOrder ==
    /\ InOrder
    /\ (Has("ctxt") \/ Has("ctxt_err") => (build.ran => build.status = 0))
    /\ (Has("resolve") \/ Has("resolve_err") => ctxt.built /\ Has("ctxt"))
    /\ (Has("invoke") \/ Has("invoke_err") => ctxt.built /\ ~Has("resolve_err"))
    /\ (Has("invoke") /\ ~NoSelector /\ BuildingTool
          => path # NoPath /\ Precedes("resolve", "invoke"))
    /\ (Has("postprocess") \/ stdout # << >>
          => output.exited /\ Precedes("invoke", "postprocess"))
    /\ (Has("emit") => Precedes("postprocess", "emit") /\ Len(stdout) = 1)

C6_Witness ==
    /\ ExactlyOne
    /\ output.exited /\ output.status = MaxCode
    /\ Has("emit") /\ stdout # << >>
    /\ pc = "done" /\ result = Ok(MaxCode)

\* C7: the target of the context is the --target flag if present, otherwise
\* the project's build target if present, otherwise the host triple.
C7_TargetPrecedence ==
    ctxt.built =>
        /\ (matches.target # None => ctxt.target = matches.target)
        /\ (matches.target = None /\ ctxt.build_target # None
              => ctxt.target = ctxt.build_target)
        /\ (matches.target = None /\ ctxt.build_target = None
              => ctxt.target \in Hosts)

C7_Witness ==
    /\ ctxt.built
    /\ matches.target # None /\ ctxt.build_target # None
    /\ ctxt.target = matches.target /\ ctxt.target # ctxt.build_target

\* C8: a run of profdata never starts the build and never resolves an
\* artifact; the tool is invoked with exactly the trailing arguments, without
\* a change of working directory, and what is written to standard output is
\* the tool's captured standard output.
C8_ProfdataPassesThrough ==
    tool = "Profdata" =>
        /\ ~build.ran /\ ~Has("build") /\ ~Has("build_err")
        /\ path = NoPath /\ ~Has("resolve") /\ ~Has("resolve_err")
        /\ (Has("invoke") \/ Has("invoke_err")
              => lltool.args = Trailing /\ lltool.cwd = NoPath)
        /\ (stdout # << >> => stdout = <<output.stdout>>)

C8_Witness ==
    /\ tool = "Profdata"
    /\ Len(Trailing) >= 2 /\ lltool.args = Trailing
    /\ output.exited /\ stdout = <<output.stdout>>

\* C9: a resolved artifact is placed by tool kind: nm, objdump and size run
\* in the artifact's parent directory on its bare file name; objcopy,
\* profdata and strip get the full path and no change of working directory.
ArtifactIndex == IF tool = "Objdump" THEN 3 ELSE 1
C9_ArtifactPlacement ==
    path # NoPath =>
        /\ Len(lltool.args) >= ArtifactIndex
        /\ (tool \in {"Nm", "Objdump", "Size"} =>
              /\ lltool.cwd = SubSeq(path, 1, Len(path) - 1)
              /\ lltool.args[ArtifactIndex] = <<path[Len(path)]>>)
        /\ (tool \in {"Objcopy", "Profdata", "Strip"} =>
              /\ lltool.cwd = NoPath
              /\ lltool.args[ArtifactIndex] = path)

C9_Witness ==
    /\ tool = "Size" /\ Len(path) = 4
    /\ lltool.cwd = SubSeq(path, 1, 3)
    /\ output.exited

\* C10: the arguments of the tool are the architecture-name flag and its
\* value (objdump only), then the artifact argument (if an artifact was
\* resolved), then the trailing arguments in their order.
ArchPart ==
    IF tool = "Objdump" THEN << <<"-arch-name">>, <<"arch-of", ctxt.target>> >> ELSE << >>
ArtifactPart ==
    IF path = NoPath THEN << >>
    ELSE IF tool \in {"Nm", "Objdump", "Size"} THEN << <<path[Len(path)]>> >>
    ELSE <<path>>
C10_ArgumentOrder ==
    (Has("invoke") \/ Has("invoke_err")) =>
        lltool.args = ArchPart \o ArtifactPart \o Trailing

C10_Witness ==
    /\ tool = "Objdump" /\ path # NoPath
    /\ Len(Trailing) >= 2
    /\ Has("invoke")
    /\ Len(lltool.args) = 3 + Len(Trailing)
====
